---- MODULE Spec2Model ----
(***************************************************************************)
(* Model of transformer-llguidance.js: the grammar oracle adapter           *)
(* (GuidanceParser, src/src/parser.ts) and the speculative masking          *)
(* controller (GuidanceLogitsProcessor, src/unnamed/part_002).              *)
(*                                                                         *)
(* Arrays are 0-based in the source and 1-based here: token id t of a       *)
(* Float32Array or Uint8Array lives at position t + 1 of the sequence.      *)
(***************************************************************************)
EXTENDS Integers, Sequences, FiniteSets, TLC

\* ------------------------------------------------------------------ bounds

\* Longest logits buffer the host passes to process.
MaxLogitsLen == 3
\* Length of the session's vocabulary (vocab_size, the length of the mask).
VocabSize == 2
\* Largest explicit speculationDepth option.
MaxDepth == 2
\* Cap on the tokens committed to one session and on the history length.
MaxTokens == 2
\* Longest list of added tokens with more than one entry.
MaxAddedTokens == 2

\* ------------------------------------------------------- program constants

\* options.speculationDepth ?? 5
DefaultSpeculationDepth == 5
\* -Infinity, below every finite logit of the model.
NegInfinity == -1

\* The logits of the model: -Infinity and two finite values, enough for every
\* strict order and every tie among three entries.
LogitValues == {NegInfinity, 0, 1}
LogitsBuffers == UNION {[1 .. n -> LogitValues] : n \in 1 .. MaxLogitsLen}
TokenIds == 0 .. (VocabSize - 1)

\* An absent optional value (undefined).
Undefined == "undefined"

Min(a, b) == IF a < b THEN a ELSE b

\* ----------------------------------------------------- processor: getTopK

\* The comparator of getTopK, (a, b) => b.logit - a.logit, as sort reads it:
\* the sign of the difference, a NaN difference (-Infinity - -Infinity)
\* counting as +0.
CompareFn(a, b) ==
    IF a.logit = NegInfinity /\ b.logit = NegInfinity THEN 0
    ELSE IF b.logit = NegInfinity THEN -1
    ELSE IF a.logit = NegInfinity THEN 1
    ELSE IF b.logit - a.logit > 0 THEN 1
    ELSE IF b.logit - a.logit < 0 THEN -1
    ELSE 0

\* A sort that puts an element before its equals (ties by descending id).
InsertSortedTiesFirst(sorted, x) ==
    LET after == {i \in 1 .. Len(sorted) : CompareFn(sorted[i], x) >= 0}
        p == IF after = {} THEN Len(sorted) + 1
             ELSE CHOOSE i \in after : \A j \in after : i <= j
    IN  SubSeq(sorted, 1, p - 1) \o <<x>> \o SubSeq(sorted, p, Len(sorted))

\* One step of Array.prototype.sort, which is stable: x, which followed the
\* elements of sorted in the array, goes before the first element the
\* comparator orders after it, and so after every element it ties with.
InsertSorted(sorted, x) ==
    LET after == {i \in 1 .. Len(sorted) : CompareFn(sorted[i], x) > 0}
        p == IF after = {} THEN Len(sorted) + 1
             ELSE CHOOSE i \in after : \A j \in after : i <= j
    IN  SubSeq(sorted, 1, p - 1) \o <<x>> \o SubSeq(sorted, p, Len(sorted))

RECURSIVE SortIndexed(_)
SortIndexed(indexed) ==
    IF indexed = <<>> THEN <<>>
    ELSE InsertSorted(SortIndexed(SubSeq(indexed, 1, Len(indexed) - 1)),
                      indexed[Len(indexed)])

\* getTopK(logits, k): index every logit, sort, slice(0, k).
getTopK(buf, k) ==
    LET indexed == [i \in 1 .. Len(buf) |-> [tokenId |-> i - 1, logit |-> buf[i]]]
        sorted == SortIndexed(indexed)
    IN  SubSeq(sorted, 1, Min(k, Len(sorted)))

\* --------------------------------------- processor: the two masking paths

\* A copy that is never filled with -Infinity.
maskAllExceptNoFill(buf, allowedToken) == buf

\* maskAllExcept(logits, allowedToken): a new array filled with -Infinity
\* that keeps the allowed token's logit.
maskAllExcept(buf, allowedToken) ==
    [i \in 1 .. Len(buf) |->
        IF i = allowedToken + 1 THEN buf[allowedToken + 1] ELSE NegInfinity]

\* A bitmask applied the wrong way round.
applyBitmaskInverted(buf, mask) ==
    [i \in 1 .. Len(buf) |->
        IF i <= Len(mask) /\ mask[i] = 1 THEN NegInfinity ELSE buf[i]]

\* applyBitmask(logits, mask): -Infinity wherever mask[i] === 0; an index
\* past the end of the mask reads undefined, which is not 0.
applyBitmask(buf, mask) ==
    [i \in 1 .. Len(buf) |->
        IF i <= Len(mask) /\ mask[i] = 0 THEN NegInfinity ELSE buf[i]]

\* ------------------------------------------------- parser: convertGrammar

\* The grammars a caller passes: one per tag, the lark grammar without a
\* start symbol, with one and with the empty string for one, and a pattern the
\* oracle rejects.
Grammars ==
    { [type |-> "json_schema", schema |-> "schema"],
      [type |-> "regex", pattern |-> "pattern"],
      [type |-> "regex", pattern |-> "malformed"],
      [type |-> "lark", grammar |-> "rules", startSymbol |-> Undefined],
      [type |-> "lark", grammar |-> "rules", startSymbol |-> "root"],
      [type |-> "lark", grammar |-> "rules", startSymbol |-> ""] }

\* A translation that defaults with || : the empty start symbol is replaced too.
convertGrammarFalsyDefault(grammar) ==
    CASE grammar.type = "json_schema" ->
           [grammars |-> << [json_schema |-> grammar.schema] >>]
      [] grammar.type = "regex" ->
           [grammars |-> << [rx |-> grammar.pattern] >>]
      [] grammar.type = "lark" ->
           [grammars |-> << [lark |-> grammar.grammar,
                             start |-> IF grammar.startSymbol \in {Undefined, ""}
                                       THEN "start"
                                       ELSE grammar.startSymbol] >>]

\* convertGrammar(grammar): one case per tag; startSymbol ?? 'start'.
convertGrammar(grammar) ==
    CASE grammar.type = "json_schema" ->
           [grammars |-> << [json_schema |-> grammar.schema] >>]
      [] grammar.type = "regex" ->
           [grammars |-> << [rx |-> grammar.pattern] >>]
      [] grammar.type = "lark" ->
           [grammars |-> << [lark |-> grammar.grammar,
                             start |-> IF grammar.startSymbol = Undefined
                                       THEN "start"
                                       ELSE grammar.startSymbol] >>]

\* JSON.stringify of a document: a non-empty string that carries it. The
\* empty string is <<>>.
JSONStringify(doc) == <<doc>>
EmptyString == <<>>

\* ------------------------------------------------------------------- state

VARIABLES
    \* GuidanceParser.create: where the pending call stands, and its arguments.
    createPc, createArgs,
    \* GuidanceParser: _isInitialized, the session handle, and whether the
    \* caller holds a reference to the adapter.
    isInitialized, wasmParser, callerHasParser,
    \* Sessions the oracle has constructed for this adapter.
    sessionsConstructed,
    \* GuidanceLogitsProcessor: constructed or not, speculationDepth, debug,
    \* and the array that generatedTokens refers to.
    hasProcessor, speculationDepth, debug, generatedTokens,
    \* The arrays of token ids, by reference, and the array the caller got
    \* from getGeneratedTokens (0: none).
    heap, snapshot,
    \* The ids passed to onToken since the controller was constructed or reset.
    passed,
    \* The last operation: its name, layer, arguments and outcome; what it
    \* returned; the calls it made on the adapter and on the oracle session.
    lastOp, ret, parserCalls, wasmCalls,
    \* The oracle's view of its session when the last operation reached it:
    \* the tokens it allows and whether the state is accepting.
    oracle,
    \* The buffer given to the last process call, as it was before the call
    \* and as the caller finds it after the call.
    logitsBefore, logits,
    \* The lines the last operation wrote with console.log.
    console,
    \* The first process call of a generation that is repeated later: its
    \* logits, the oracle's view, and what the call did (<<>>: none kept).
    reference

vars == << createPc, createArgs, isInitialized, wasmParser, callerHasParser,
           sessionsConstructed, hasProcessor, speculationDepth, debug,
           generatedTokens, heap, snapshot, passed, lastOp, ret, parserCalls,
           wasmCalls, oracle, logitsBefore, logits, console, reference >>

adapterVars == << createPc, createArgs, isInitialized, wasmParser,
                  callerHasParser, sessionsConstructed >>
processorVars == << hasProcessor, speculationDepth, debug, generatedTokens,
                    heap, snapshot, passed >>

Refs == 1 .. 2
NullRef == 0

\* The live session behind the handle.
Session == wasmParser[1]
\* The contents of this.generatedTokens.
History == heap[generatedTokens]

Call(fn, arg) == [fn |-> fn, arg |-> arg]

\* What an operation leaves for the caller to observe.
Observe(name, layer, arg, outcome, r, pcalls, wcalls) ==
    /\ lastOp' = [name |-> name, layer |-> layer, arg |-> arg, outcome |-> outcome]
    /\ ret' = r
    /\ parserCalls' = pcalls
    /\ wasmCalls' = wcalls

NoBuffer == logitsBefore' = <<>> /\ logits' = <<>>

\* if (this.debug) { console.log(line) }
DebugLog(enabled, line) == IF enabled THEN <<line>> ELSE <<>>

\* The operation logs nothing.
NoLog == console' = <<>>

\* The operation asked the oracle nothing.
NoAnswer == [allowed |-> {}, complete |-> FALSE]
NoQuery == oracle' = NoAnswer

\* ------------------------------------------------- the oracle (llguidance)

\* TokenizerData with a vocabulary of n tokens.
TokenizerData(n) ==
    [vocab |-> [i \in 1 .. n |-> i - 1], merges |-> <<>>,
     added_tokens |-> <<>>, model_type |-> "unknown"]

Tokenizers == {TokenizerData(VocabSize), TokenizerData(0)}

\* init(serializedGrammar, serializedTokenizer): the oracle rejects a
\* malformed grammar and an empty vocabulary.
wasm_accepts_grammar(grammarJson) ==
    grammarJson[1] # [grammars |-> << [rx |-> "malformed"] >>]

wasm_accepts(grammarJson, tokenizerJson) ==
    /\ wasm_accepts_grammar(grammarJson)
    /\ Len(tokenizerJson[1].vocab) > 0

\* The automaton is opaque: what the oracle answers in the state its session
\* is in, the tokens it allows and whether the state is accepting, is an
\* input of the operation that asks. Queries do not change the state, so one
\* operation gets one answer.
OracleAnswers == [allowed : SUBSET TokenIds, complete : BOOLEAN]
AllowedAnswers == {a \in OracleAnswers : ~a.complete}
CompleteAnswers == {a \in OracleAnswers : a.allowed = {}}

wasm_new(grammarJson, tokenizerJson) ==
    [original |-> grammarJson, grammar |-> grammarJson,
     vocab_size |-> Len(tokenizerJson[1].vocab), tokens |-> <<>>]

\* isTokenAllowed(session, id): false for an id outside the vocabulary.
wasm_is_token_allowed(answer, id) == id \in answer.allowed

\* getTokenMask(session): one entry per token id, 1 = valid continuation.
wasm_get_token_mask(s, answer) ==
    [i \in 1 .. s.vocab_size |-> IF (i - 1) \in answer.allowed THEN 1 ELSE 0]

wasm_is_complete(answer) == answer.complete

wasm_vocab_size(s) == s.vocab_size

\* advance(session, id): commits the token.
wasm_advance(s, id) == [s EXCEPT !.tokens = Append(@, id)]

\* A token the session allows is committed; with one it does not allow the
\* caller has broken the contract and the oracle may commit it or throw.
wasm_advance_may_throw(answer, id, oracleThrows) ==
    oracleThrows => ~wasm_is_token_allowed(answer, id)

\* What matters to advance(id) of the oracle's view: whether it allows id.
AdvanceAnswers(id) == {a \in AllowedAnswers : a.allowed \subseteq {id}}

\* reset(session, serializedGrammarOrEmpty): back to the start of the
\* original grammar, or of the one given.
wasm_reset(s, json) ==
    [s EXCEPT !.grammar = IF json = EmptyString THEN s.original ELSE json,
              !.tokens = <<>>]

\* -------------------------------------------------------------------- Init

Init ==
    /\ createPc = "idle"
    /\ createArgs = <<>>
    /\ isInitialized = FALSE
    /\ wasmParser = <<>>
    /\ callerHasParser = FALSE
    /\ sessionsConstructed = 0
    /\ hasProcessor = FALSE
    /\ speculationDepth = 0
    /\ generatedTokens = NullRef
    /\ heap = [r \in Refs |-> <<>>]
    /\ snapshot = NullRef
    /\ passed = <<>>
    /\ lastOp = [name |-> "none", layer |-> "none", arg |-> <<>>, outcome |-> "ok"]
    /\ ret = <<>>
    /\ parserCalls = <<>>
    /\ wasmCalls = <<>>
    /\ oracle = NoAnswer
    /\ logitsBefore = <<>>
    /\ logits = <<>>
    /\ debug = FALSE
    /\ console = <<>>
    /\ reference = <<>>

\* ------------------------------------------------- GuidanceParser.create

\* A create that does not await initialize: it returns the adapter at once,
\* with initialize still suspended at the import.
CreateCallNoAwait(grammar, tokenizer) ==
    /\ createPc \in {"idle", "rejected"}
    /\ createPc' = "awaitImport"
    /\ createArgs' = <<grammar, tokenizer>>
    /\ isInitialized' = FALSE
    /\ wasmParser' = <<>>
    /\ sessionsConstructed' = 0
    /\ callerHasParser' = TRUE
    /\ Observe("create", "parser", <<>>, "ok", <<>>, <<>>, <<>>)
    /\ NoBuffer
    /\ NoLog
    /\ UNCHANGED reference
    /\ NoQuery
    /\ UNCHANGED processorVars

\* create(grammar, tokenizer) up to its first suspension: new
\* GuidanceParser(), then initialize, which awaits the import of the module.
CreateCall(grammar, tokenizer) ==
    /\ createPc \in {"idle", "rejected"}
    /\ createPc' = "awaitImport"
    /\ createArgs' = <<grammar, tokenizer>>
    /\ isInitialized' = FALSE
    /\ wasmParser' = <<>>
    /\ sessionsConstructed' = 0
    /\ Observe("create", "parser", <<>>, "pending", <<>>, <<>>, <<>>)
    /\ NoBuffer
    /\ NoLog
    /\ UNCHANGED reference
    /\ NoQuery
    /\ UNCHANGED << callerHasParser, processorVars >>

\* The import fails: initialize throws, create rejects.
ImportRejected ==
    /\ createPc = "awaitImport"
    /\ createPc' = "rejected"
    /\ createArgs' = <<>>
    /\ Observe("create", "parser", <<>>, "ImportError", <<>>, <<>>, <<>>)
    /\ NoBuffer
    /\ NoLog
    /\ UNCHANGED reference
    /\ NoQuery
    /\ UNCHANGED << isInitialized, wasmParser, callerHasParser,
                    sessionsConstructed, processorVars >>

\* An initialize that sets _isInitialized before it constructs the session.
InitializeResumeFlagFirst ==
    /\ createPc = "awaitImport"
    /\ LET grammarJson == JSONStringify(convertGrammar(createArgs[1]))
           tokenizerJson == JSONStringify(createArgs[2])
           call == [fn |-> "new", grammarJson |-> grammarJson,
                    tokenizerJson |-> tokenizerJson]
       IN  IF wasm_accepts(grammarJson, tokenizerJson)
           THEN /\ wasmParser' = << wasm_new(grammarJson, tokenizerJson) >>
                /\ sessionsConstructed' = sessionsConstructed + 1
                /\ createPc' = "awaitInitialize"
                /\ Observe("create", "parser", <<>>, "pending", <<>>, <<>>, <<call>>)
           ELSE /\ createPc' = "rejected"
                /\ Observe("create", "parser", <<>>, "OracleInitError", <<>>, <<>>, <<call>>)
                /\ UNCHANGED << wasmParser, sessionsConstructed >>
    /\ isInitialized' = TRUE
    /\ createArgs' = <<>>
    /\ NoBuffer
    /\ NoLog
    /\ UNCHANGED reference
    /\ NoQuery
    /\ UNCHANGED << callerHasParser, processorVars >>

\* The import resolves and initialize runs to its end: convert and serialize
\* the grammar, serialize the tokenizer, construct the session (which throws
\* when the oracle rejects either), set _isInitialized.
InitializeResume ==
    /\ createPc = "awaitImport"
    /\ LET grammarJson == JSONStringify(convertGrammar(createArgs[1]))
           tokenizerJson == JSONStringify(createArgs[2])
           call == [fn |-> "new", grammarJson |-> grammarJson,
                    tokenizerJson |-> tokenizerJson]
       IN  IF wasm_accepts(grammarJson, tokenizerJson)
           THEN /\ wasmParser' = << wasm_new(grammarJson, tokenizerJson) >>
                /\ isInitialized' = TRUE
                /\ sessionsConstructed' = sessionsConstructed + 1
                /\ createPc' = "awaitInitialize"
                /\ Observe("create", "parser", <<>>, "pending", <<>>, <<>>, <<call>>)
           ELSE /\ createPc' = "rejected"
                /\ Observe("create", "parser", <<>>, "OracleInitError", <<>>, <<>>, <<call>>)
                /\ UNCHANGED << wasmParser, isInitialized, sessionsConstructed >>
    /\ createArgs' = <<>>
    /\ NoBuffer
    /\ NoLog
    /\ UNCHANGED reference
    /\ NoQuery
    /\ UNCHANGED << callerHasParser, processorVars >>

\* initialize has resolved: create returns the adapter to its caller.
CreateReturn ==
    /\ createPc = "awaitInitialize"
    /\ createPc' = "resolved"
    /\ callerHasParser' = TRUE
    /\ Observe("create", "parser", <<>>, "ok", <<>>, <<>>, <<>>)
    /\ NoBuffer
    /\ NoLog
    /\ UNCHANGED reference
    /\ NoQuery
    /\ UNCHANGED << createArgs, isInitialized, wasmParser, sessionsConstructed,
                    processorVars >>

\* new GuidanceParser() without create: the constructor is private to the
\* type checker only, and leaves the adapter uninitialized.
NewGuidanceParser ==
    /\ createPc = "idle"
    /\ createPc' = "bypassed"
    /\ callerHasParser' = TRUE
    /\ isInitialized' = FALSE
    /\ wasmParser' = <<>>
    /\ Observe("constructor", "parser", <<>>, "ok", <<>>, <<>>, <<>>)
    /\ NoBuffer
    /\ NoLog
    /\ UNCHANGED reference
    /\ NoQuery
    /\ UNCHANGED << createArgs, sessionsConstructed, processorVars >>

\* ------------------------------------------ GuidanceParser: the operations

\* An adapter that lets every call through.
ensureInitializedSkipped == TRUE

\* ensureInitialized(): throws unless _isInitialized; TRUE when it returns.
ensureInitialized == isInitialized

\* What a method of the adapter does once ensureInitialized has returned and
\* before it reaches the oracle: a call on an undefined handle is a TypeError.
Guarded(done) ==
    IF ~ensureInitialized
    THEN [outcome |-> "NotInitializedError", ret |-> <<>>, wcalls |-> <<>>,
          wasmParser |-> wasmParser]
    ELSE IF wasmParser = <<>>
    THEN [outcome |-> "TypeError", ret |-> <<>>, wcalls |-> <<>>,
          wasmParser |-> wasmParser]
    ELSE done

Returns(value, call) ==
    [outcome |-> "ok", ret |-> value, wcalls |-> <<call>>, wasmParser |-> wasmParser]

isTokenAllowed(tokenId, answer) ==
    Guarded(Returns(<< wasm_is_token_allowed(answer, tokenId) >>,
                    Call("is_token_allowed", <<tokenId>>)))

getTokenMask(answer) ==
    Guarded(Returns(<< wasm_get_token_mask(Session, answer) >>,
                    Call("get_token_mask", <<>>)))

\* A completion test that asks for the mask: complete when nothing is allowed.
isCompleteFromMask(answer) ==
    Guarded(Returns(<< \A i \in 1 .. Session.vocab_size :
                          wasm_get_token_mask(Session, answer)[i] = 0 >>,
                    Call("get_token_mask", <<>>)))

\* A completion test that rewinds the session before it asks.
isCompleteAfterReset(answer) ==
    Guarded([outcome |-> "ok", ret |-> << wasm_is_complete(answer) >>,
             wcalls |-> << [fn |-> "reset", json |-> EmptyString],
                           Call("is_complete", <<>>) >>,
             wasmParser |-> wasmParser])

isComplete(answer) ==
    Guarded(Returns(<< wasm_is_complete(answer) >>, Call("is_complete", <<>>)))

vocabSize ==
    Guarded(Returns(<< wasm_vocab_size(Session) >>, Call("vocab_size", <<>>)))

\* An advance that asks the oracle about the token first.
advanceChecked(tokenId, oracleThrows) ==
    Guarded(IF oracleThrows
            THEN [outcome |-> "OracleError", ret |-> <<>>,
                  wcalls |-> << Call("is_token_allowed", <<tokenId>>) >>,
                  wasmParser |-> wasmParser]
            ELSE [outcome |-> "ok", ret |-> <<>>,
                  wcalls |-> << Call("is_token_allowed", <<tokenId>>),
                                Call("advance", <<tokenId>>) >>,
                  wasmParser |-> << wasm_advance(Session, tokenId) >>])

\* advance(tokenId): no check of the token before the oracle commits it. What
\* the oracle does with a token it does not allow is undefined: it may commit
\* it or throw (oracleThrows).
advance(tokenId, oracleThrows) ==
    Guarded(IF oracleThrows
            THEN [outcome |-> "OracleError", ret |-> <<>>,
                  wcalls |-> << Call("advance", <<tokenId>>) >>,
                  wasmParser |-> wasmParser]
            ELSE [outcome |-> "ok", ret |-> <<>>,
                  wcalls |-> << Call("advance", <<tokenId>>) >>,
                  wasmParser |-> << wasm_advance(Session, tokenId) >>])

\* A reset that never reaches the session.
resetSkipped(grammar) ==
    Guarded([outcome |-> "ok", ret |-> <<>>, wcalls |-> <<>>,
             wasmParser |-> wasmParser])

\* A reset that drops its argument: always reset('').
resetIgnoresGrammar(grammar) ==
    Guarded([outcome |-> "ok", ret |-> <<>>,
             wcalls |-> << [fn |-> "reset", json |-> EmptyString] >>,
             wasmParser |-> << wasm_reset(Session, EmptyString) >>])

\* reset(grammar?): grammar is <<>> when the argument is left out.
reset(grammar) ==
    LET json == IF grammar # <<>>
                THEN JSONStringify(convertGrammar(grammar[1]))
                ELSE EmptyString
    IN  Guarded(IF json # EmptyString /\ ~wasm_accepts_grammar(json)
                THEN [outcome |-> "OracleInitError", ret |-> <<>>,
                      wcalls |-> << [fn |-> "reset", json |-> json] >>,
                      wasmParser |-> wasmParser]
                ELSE [outcome |-> "ok", ret |-> <<>>,
                      wcalls |-> << [fn |-> "reset", json |-> json] >>,
                      wasmParser |-> << wasm_reset(Session, json) >>])

\* The session is kept within the model's bound on committed tokens.
CanCommit == wasmParser # <<>> => Len(Session.tokens) < MaxTokens

\* The caller's own calls on the adapter.
ParserRead(name, arg, r, answer) ==
    /\ callerHasParser
    /\ Observe(name, "parser", arg, r.outcome, r.ret, <<>>, r.wcalls)
    /\ oracle' = IF r.outcome = "ok" THEN answer ELSE NoAnswer
    /\ NoBuffer
    /\ NoLog
    /\ UNCHANGED reference
    /\ UNCHANGED << adapterVars, processorVars >>

ParserIsTokenAllowed(tokenId, answer) ==
    ParserRead("isTokenAllowed", <<tokenId>>, isTokenAllowed(tokenId, answer), answer)

ParserGetTokenMask(answer) ==
    ParserRead("getTokenMask", <<>>, getTokenMask(answer), answer)

ParserIsComplete(answer) ==
    ParserRead("isComplete", <<>>, isComplete(answer), answer)

ParserVocabSize == ParserRead("vocabSize", <<>>, vocabSize, NoAnswer)

ParserWrite(name, arg, r, answer) ==
    /\ callerHasParser
    /\ wasmParser' = r.wasmParser
    /\ Observe(name, "parser", arg, r.outcome, r.ret, <<>>, r.wcalls)
    /\ oracle' = IF r.wcalls # <<>> THEN answer ELSE NoAnswer
    /\ NoBuffer
    /\ NoLog
    /\ UNCHANGED reference
    /\ UNCHANGED << createPc, createArgs, isInitialized, callerHasParser,
                    sessionsConstructed, processorVars >>

ParserAdvance(tokenId, answer, oracleThrows) ==
    /\ CanCommit
    /\ wasm_advance_may_throw(answer, tokenId, oracleThrows)
    /\ ParserWrite("advance", <<tokenId>>, advance(tokenId, oracleThrows), answer)

ParserReset(grammar) == ParserWrite("reset", grammar, reset(grammar), NoAnswer)

\* ------------------------------------------------ GuidanceLogitsProcessor

\* value ?? fallback, for an option that is <<>> when left out.
Nullish(option, fallback) == IF option = <<>> THEN fallback ELSE option[1]

\* An array no live reference points to: the controller's and the caller's
\* are the only two references in the model.
FreshRef(inUse) == CHOOSE r \in Refs : r # inUse

\* constructor(parser, options): keeps the adapter it is given, whatever its
\* state; speculationDepth ?? 5, debug ?? false, generatedTokens = [].
NewProcessor(depthOption, debugOption) ==
    /\ callerHasParser
    /\ ~hasProcessor
    /\ hasProcessor' = TRUE
    /\ speculationDepth' = Nullish(depthOption, DefaultSpeculationDepth)
    /\ debug' = Nullish(debugOption, FALSE)
    /\ generatedTokens' = FreshRef(snapshot)
    /\ heap' = [heap EXCEPT ![FreshRef(snapshot)] = <<>>]
    /\ passed' = <<>>
    /\ Observe("constructor", "processor", << depthOption, debugOption >>, "ok",
               <<>>, <<>>, <<>>)
    /\ NoBuffer
    /\ NoLog
    /\ UNCHANGED reference
    /\ NoQuery
    /\ UNCHANGED << adapterVars, snapshot >>

\* A loop that does not return at the first accepted candidate: it goes on to
\* the last one.
SpeculateToLast(topK, i, answer) ==
    LET stops == {j \in i .. Len(topK) :
                    LET r == isTokenAllowed(topK[j].tokenId, answer)
                    IN  IF r.outcome # "ok" THEN TRUE ELSE r.ret[1]}
    IN  IF stops = {} THEN 0
        ELSE CHOOSE j \in stops : \A l \in stops : l <= j

\* The for loop of process over topK from candidate i on: the index of the
\* candidate at which it leaves the loop (the query is accepted, or throws),
\* 0 when it runs off the end.
RECURSIVE Speculate(_, _, _)
Speculate(topK, i, answer) ==
    IF i > Len(topK) THEN 0
    ELSE LET r == isTokenAllowed(topK[i].tokenId, answer)
         IN  IF r.outcome # "ok" THEN i
             ELSE IF r.ret[1] THEN i
             ELSE Speculate(topK, i + 1, answer)

\* The oracle calls behind the first n queries of the loop.
RECURSIVE QueryCalls(_, _, _)
QueryCalls(topK, n, answer) ==
    IF n = 0 THEN <<>>
    ELSE QueryCalls(topK, n - 1, answer)
            \o isTokenAllowed(topK[n].tokenId, answer).wcalls

\* process(inputIds, logits) with the debug flag dbg, whole: rank, log,
\* speculate, then the fast path on a copy or the slow path in place. What it
\* throws or returns, the calls it makes, the caller's buffer after it, the
\* oracle's view it met and the lines it logs. It reads neither inputIds nor
\* generatedTokens.
process(buf, answer, dbg) ==
    LET topK == getTopK(buf, speculationDepth)
        stop == Speculate(topK, 1, answer)
        queried == IF stop = 0 THEN Len(topK) ELSE stop
        pcalls == [i \in 1 .. queried |->
                     Call("isTokenAllowed", << topK[i].tokenId >>)]
        wcalls == QueryCalls(topK, queried, answer)
        last == isTokenAllowed(topK[stop].tokenId, answer)
        mask == getTokenMask(answer)
        top == DebugLog(dbg, "Top-k tokens")
    IN  IF stop # 0 /\ last.outcome # "ok"
        THEN [outcome |-> last.outcome, ret |-> <<>>, pcalls |-> pcalls,
              wcalls |-> wcalls, logits |-> buf, oracle |-> NoAnswer,
              log |-> top]
        ELSE IF stop # 0
        THEN [outcome |-> "ok",
              ret |-> << maskAllExcept(buf, topK[stop].tokenId) >>,
              pcalls |-> pcalls, wcalls |-> wcalls, logits |-> buf,
              oracle |-> answer,
              log |-> top \o DebugLog(dbg, "Speculation hit")]
        ELSE IF mask.outcome # "ok"
        THEN [outcome |-> mask.outcome, ret |-> <<>>,
              pcalls |-> Append(pcalls, Call("getTokenMask", <<>>)),
              wcalls |-> wcalls, logits |-> buf, oracle |-> NoAnswer,
              log |-> top \o DebugLog(dbg, "Speculation miss")]
        ELSE [outcome |-> "ok",
              ret |-> << applyBitmask(buf, mask.ret[1]) >>,
              pcalls |-> Append(pcalls, Call("getTokenMask", <<>>)),
              wcalls |-> wcalls \o mask.wcalls,
              logits |-> applyBitmask(buf, mask.ret[1]), oracle |-> answer,
              log |-> top \o DebugLog(dbg, "Speculation miss")]

\* The effect of a process call on what the caller observes.
Processing(inputIds, buf, r) ==
    /\ Observe("process", "processor", << inputIds >>, r.outcome, r.ret,
               r.pcalls, r.wcalls)
    /\ logitsBefore' = buf
    /\ logits' = r.logits
    /\ console' = r.log
    /\ UNCHANGED << adapterVars, processorVars >>

\* A process that takes the ids of inputIds for tokens already used up.
ProcessReadingInputIds(inputIds, buf, answer) ==
    /\ hasProcessor
    /\ Processing(inputIds, buf,
          process(buf, [answer EXCEPT !.allowed =
                          @ \ {inputIds[i] : i \in 1 .. Len(inputIds)}], debug))
    /\ oracle' = answer

\* process(inputIds, logits) on the controller. Whether the call is kept as
\* the reference of a generation is for the host to say.
Process(inputIds, buf, answer) ==
    /\ hasProcessor
    /\ Processing(inputIds, buf, process(buf, answer, debug))
    /\ oracle' = process(buf, answer, debug).oracle

\* An unshift where the push should be.
unshift(array, tokenId) == <<tokenId>> \o array

\* this.generatedTokens.push(tokenId)
push(array, tokenId) == Append(array, tokenId)

\* An onToken that, with debug on, logs and returns before the advance.
onTokenDebugSkipsAdvance(tokenId, oracleThrows, dbg) ==
    LET r == advance(tokenId, oracleThrows)
    IN  IF dbg
        THEN [history |-> push(History, tokenId), outcome |-> "ok",
              pcalls |-> <<>>, wcalls |-> <<>>, wasmParser |-> wasmParser,
              log |-> << "Advanced with token" >>]
        ELSE [history |-> push(History, tokenId), outcome |-> r.outcome,
              pcalls |-> << Call("advance", <<tokenId>>) >>,
              wcalls |-> r.wcalls, wasmParser |-> r.wasmParser, log |-> <<>>]

\* onToken(tokenId) with the debug flag dbg: push, then advance, then the log
\* line, which a throwing advance never reaches.
onToken(tokenId, oracleThrows, dbg) ==
    LET r == advance(tokenId, oracleThrows)
    IN  [history |-> push(History, tokenId), outcome |-> r.outcome,
         pcalls |-> << Call("advance", <<tokenId>>) >>,
         wcalls |-> r.wcalls, wasmParser |-> r.wasmParser,
         log |-> IF r.outcome = "ok" THEN DebugLog(dbg, "Advanced with token")
                 ELSE <<>>]

OnToken(tokenId, answer, oracleThrows) ==
    /\ hasProcessor
    /\ Len(History) < MaxTokens
    /\ CanCommit
    /\ wasm_advance_may_throw(answer, tokenId, oracleThrows)
    /\ LET r == onToken(tokenId, oracleThrows, debug)
       IN  /\ heap' = [heap EXCEPT ![generatedTokens] = r.history]
           /\ passed' = Append(passed, tokenId)
           /\ wasmParser' = r.wasmParser
           /\ Observe("onToken", "processor", <<tokenId>>, r.outcome, <<>>,
                      r.pcalls, r.wcalls)
           /\ oracle' = IF r.wcalls # <<>> THEN answer ELSE NoAnswer
           /\ console' = r.log
    /\ NoBuffer
    /\ UNCHANGED reference
    /\ UNCHANGED << createPc, createArgs, isInitialized, callerHasParser,
                    sessionsConstructed, hasProcessor, speculationDepth, debug,
                    generatedTokens, snapshot >>

\* canStop(): the adapter's isComplete.
CanStop(answer) ==
    /\ hasProcessor
    /\ LET r == isComplete(answer)
       IN  /\ Observe("canStop", "processor", <<>>, r.outcome, r.ret,
                      << Call("isComplete", <<>>) >>, r.wcalls)
           /\ oracle' = IF r.outcome = "ok" THEN answer ELSE NoAnswer
    /\ NoBuffer
    /\ NoLog
    /\ UNCHANGED reference
    /\ UNCHANGED << adapterVars, processorVars >>

\* reset(): generatedTokens = [] (a new array), then the adapter's reset
\* with no argument.
Reset ==
    /\ hasProcessor
    /\ LET r == reset(<<>>)
           fresh == FreshRef(snapshot)
       IN  /\ generatedTokens' = fresh
           /\ heap' = [heap EXCEPT ![fresh] = <<>>]
           /\ passed' = <<>>
           /\ wasmParser' = r.wasmParser
           /\ Observe("reset", "processor", <<>>, r.outcome, <<>>,
                      << Call("reset", <<>>) >>, r.wcalls)
    /\ NoBuffer
    /\ NoLog
    /\ UNCHANGED reference
    /\ NoQuery
    /\ UNCHANGED << createPc, createArgs, isInitialized, callerHasParser,
                    sessionsConstructed, hasProcessor, speculationDepth, debug,
                    snapshot >>

\* A getter that hands out the internal array itself.
spreadAlias(ref) == ref

\* [...array]: a new array with the same elements.
spreadCopy(ref) == FreshRef(ref)

\* getGeneratedTokens(): a copy of generatedTokens; the caller keeps it.
GetGeneratedTokens ==
    /\ hasProcessor
    /\ LET r == spreadCopy(generatedTokens)
       IN  /\ snapshot' = r
           /\ heap' = [heap EXCEPT ![r] = History]
           /\ Observe("getGeneratedTokens", "processor", <<>>, "ok",
                      << History >>, <<>>, <<>>)
    /\ NoBuffer
    /\ NoLog
    /\ UNCHANGED reference
    /\ NoQuery
    /\ UNCHANGED << adapterVars, hasProcessor, speculationDepth, debug,
                    generatedTokens, passed >>

\* The caller writes to the array getGeneratedTokens gave it: push(tokenId),
\* [0] = tokenId, or length = 0.
MutateSnapshot(kind, tokenId) ==
    /\ snapshot # NullRef
    /\ kind = "push" => Len(heap[snapshot]) < MaxTokens
    /\ kind = "write" => heap[snapshot] # <<>>
    /\ kind = "truncate" => tokenId = 0
    /\ heap' = [heap EXCEPT ![snapshot] =
                  CASE kind = "push" -> Append(@, tokenId)
                    [] kind = "write" -> [@ EXCEPT ![1] = tokenId]
                    [] kind = "truncate" -> <<>>]
    /\ Observe(kind, "caller", <<tokenId>>, "ok", <<>>, <<>>, <<>>)
    /\ NoBuffer
    /\ NoLog
    /\ UNCHANGED reference
    /\ NoQuery
    /\ UNCHANGED << adapterVars, hasProcessor, speculationDepth, debug,
                    generatedTokens, snapshot, passed >>

\* --------------------------------------------------------------- the specs

\* Token ids the caller passes to the adapter's queries: the vocabulary and
\* one id past its end.
CallerTokenIds == 0 .. VocabSize
\* The tokens the host samples and commits: two ids, to tell their order.
SampledTokens == {0, 1}
DepthOptions == {<<>>} \cup {<<k>> : k \in 1 .. MaxDepth}
\* The grammars of the sessions: a schema, a lark grammar, and a pattern the
\* oracle rejects.
SessionGrammars ==
    {g \in Grammars : g.type = "json_schema" \/
                      (g.type = "lark" /\ g.startSymbol = Undefined) \/
                      (g.type = "regex" /\ g.pattern = "malformed")}
ResetArguments == {<<>>} \cup {<<g>> : g \in SessionGrammars}

\* create, from the call to the adapter in the caller's hands, and the
\* adapter constructed without it.
Construction ==
    \/ \E g \in SessionGrammars, t \in Tokenizers : CreateCall(g, t)
    \/ ImportRejected
    \/ InitializeResume
    \/ CreateReturn
    \/ NewGuidanceParser
    \/ \E d \in DepthOptions : NewProcessor(d, <<>>)

\* The adapter and the controller over it, the caller free to use both.
Next ==
    \/ Construction
    \/ \E t \in CallerTokenIds, a \in AllowedAnswers : ParserIsTokenAllowed(t, a)
    \/ \E a \in AllowedAnswers : ParserGetTokenMask(a)
    \/ \E a \in CompleteAnswers : ParserIsComplete(a)
    \/ ParserVocabSize
    \/ \E t \in SampledTokens : \E a \in AdvanceAnswers(t), th \in BOOLEAN :
          ParserAdvance(t, a, th)
    \/ \E g \in ResetArguments : ParserReset(g)
    \/ \E t \in SampledTokens : \E a \in AdvanceAnswers(t), th \in BOOLEAN :
          OnToken(t, a, th)
    \/ \E a \in CompleteAnswers : CanStop(a)
    \/ Reset

Spec == Init /\ [][Next]_vars

\* The generation loop: the host masks each step's logits through the
\* controller and feeds the sampled token back. process changes nothing but
\* what the caller observes of it, so a second process in a row reaches no
\* state the first could not, and the loop leaves it out.
NextMasking ==
    \/ Construction
    \/ (lastOp.name # "process" /\
          \E b \in LogitsBuffers, a \in AllowedAnswers :
              Process(<<>>, b, a) /\ UNCHANGED reference)
    \/ \E t \in SampledTokens : \E a \in AdvanceAnswers(t), th \in BOOLEAN :
          OnToken(t, a, th)
    \/ Reset

SpecMasking == Init /\ [][NextMasking]_vars

\* The controller's history and the copies of it the caller holds.
NextHistory ==
    \/ Construction
    \/ \E t \in SampledTokens : \E a \in AdvanceAnswers(t), th \in BOOLEAN :
          OnToken(t, a, th)
    \/ Reset
    \/ GetGeneratedTokens
    \/ \E k \in {"push", "write", "truncate"}, t \in SampledTokens :
          MutateSnapshot(k, t)

SpecHistory == Init /\ [][NextHistory]_vars

\* The inputIds a host passes to process: none, and ids of the vocabulary.
InputIdsChoices == {<<>>, <<1, 0>>}
DebugOptions == {<<>>, <<TRUE>>, <<FALSE>>}

\* The depths of the controllers compared: the default, and one candidate.
DebugDepthOptions == {<<>>, <<1>>}

\* One adapter, Ready from create or constructed without it, for the
\* harnesses that are about the controller.
OneAdapter ==
    \/ \E g \in {h \in Grammars : h.type = "json_schema"} :
          CreateCall(g, TokenizerData(VocabSize))
    \/ InitializeResume
    \/ CreateReturn
    \/ NewGuidanceParser

\* Controllers with and without debug logging, through every operation of the
\* controller: generations of process, onToken, canStop and reset, at the end
\* of which the host asks for the generated tokens.
NextDebug ==
    \/ OneAdapter
    \/ \E d \in DebugDepthOptions, dbg \in DebugOptions : NewProcessor(d, dbg)
    \/ (snapshot = NullRef /\ lastOp.name # "process" /\
          \E b \in LogitsBuffers, a \in AllowedAnswers :
              Process(<<>>, b, a) /\ UNCHANGED reference)
    \/ (snapshot = NullRef /\
          \E t \in SampledTokens : \E a \in AdvanceAnswers(t), th \in BOOLEAN :
              OnToken(t, a, th))
    \/ (snapshot = NullRef /\ \E a \in CompleteAnswers : CanStop(a))
    \/ (snapshot = NullRef /\ Reset)
    \/ GetGeneratedTokens

SpecDebug == Init /\ [][NextDebug]_vars

\* What the host keeps of the process call it will repeat: the inputs it
\* passed, the depth of the controller, and everything the call did.
Kept(buf, answer) ==
    << [logits |-> buf, answer |-> answer, k |-> speculationDepth,
        outcome |-> lastOp'.outcome, ret |-> ret',
        parserCalls |-> parserCalls', wasmCalls |-> wasmCalls'] >>

\* A host that calls process once with no inputIds, and then, between tokens
\* committed and resets, calls it again with the same logits and the same
\* oracle answers but with any inputIds.
NextIndependence ==
    \/ OneAdapter
    \/ \E d \in DebugDepthOptions : NewProcessor(d, <<>>)
    \/ (hasProcessor /\ reference = <<>> /\ History = <<>> /\
          \E b \in LogitsBuffers, a \in AllowedAnswers :
              Process(<<>>, b, a) /\ reference' = Kept(b, a))
    \/ (reference # <<>> /\
          \E ids \in InputIdsChoices :
              /\ Process(ids, reference[1].logits, reference[1].answer)
              /\ UNCHANGED reference)
    \/ \E t \in SampledTokens : \E a \in AdvanceAnswers(t) : OnToken(t, a, FALSE)
    \/ Reset

SpecIndependence == Init /\ [][NextIndependence]_vars

\* ------------------------------------------------------- tokenizer bridge

\* An optional field: <<>> when the source leaves it out, <<value>> otherwise.
Optional(S) == {<<>>} \cup {<<x>> : x \in S}

\* The property name that an assignment hands to the setter of
\* Object.prototype instead of creating a property.
ProtoKey == "__proto__"

\* const result: Record<string, number> = {}
EmptyRecord == [k \in {} |-> 0]

\* result[key] = value on a plain object made by {}: a new or overwritten
\* own property, except for the key __proto__, whose inherited setter ignores
\* a value that is neither an object nor null and creates nothing.
AssignProperty(result, key, value) ==
    IF key = ProtoKey THEN result
    ELSE [k \in DOMAIN result \cup {key} |->
            IF k = key THEN value ELSE result[k]]

\* for (const [key, value] of input) { result[key] = value }, over the first
\* n entries in the Map's iteration order.
RECURSIVE CopyEntries(_, _)
CopyEntries(entries, n) ==
    IF n = 0 THEN EmptyRecord
    ELSE AssignProperty(CopyEntries(entries, n - 1), entries[n][1],
                        entries[n][2])

\* mapToRecord(input): a Map is copied entry by entry into a new object, a
\* plain object is returned as it is.
mapToRecord(input) ==
    IF input.kind = "Map" THEN CopyEntries(input.entries, Len(input.entries))
    ELSE input.props

\* tokenizer.model?.vocab and tokenizer.model?.merges
ModelVocab(source) == IF source.model = <<>> THEN <<>> ELSE source.model[1].vocab
ModelMerges(source) ==
    IF source.model = <<>> THEN <<>> ELSE source.model[1].merges

\* A detection that takes any merges field, empty or not, for byte-pair rules.
detectModelTypeByPresence(tokenizer) ==
    IF ModelMerges(tokenizer) # <<>> THEN "bpe" ELSE "unknown"

\* detectModelType(tokenizer)
detectModelType(tokenizer) ==
    IF ModelMerges(tokenizer) # <<>> /\ Len(ModelMerges(tokenizer)[1]) > 0
    THEN "bpe"
    ELSE "unknown"

\* A defaulting with || where the code has ??: a flag given as false falls
\* back on its default.
withDefaultsFalsy(token) ==
    [id |-> token.id,
     content |-> token.content,
     single_word |-> (Nullish(token.single_word, FALSE) \/ FALSE),
     lstrip |-> (Nullish(token.lstrip, FALSE) \/ FALSE),
     rstrip |-> (Nullish(token.rstrip, FALSE) \/ FALSE),
     normalized |-> (Nullish(token.normalized, FALSE) \/ TRUE),
     special |-> (Nullish(token.special, FALSE) \/ FALSE)]

\* The callback of the two added_tokens maps: id and content copied, each
\* flag by ??.
withDefaults(token) ==
    [id |-> token.id,
     content |-> token.content,
     single_word |-> Nullish(token.single_word, FALSE),
     lstrip |-> Nullish(token.lstrip, FALSE),
     rstrip |-> Nullish(token.rstrip, FALSE),
     normalized |-> Nullish(token.normalized, TRUE),
     special |-> Nullish(token.special, FALSE)]

\* array.map(withDefaults)
MapWithDefaults(tokens) == [i \in 1 .. Len(tokens) |-> withDefaults(tokens[i])]

\* extractTokenizerData(tokenizer): the vocabulary from the first source
\* there is, the merges and the added tokens with their defaults, the
\* detected type. The added_tokens of the result is <<list>>: always there.
extractTokenizerData(tokenizer) ==
    IF tokenizer.getVocab = <<>> /\ ModelVocab(tokenizer) = <<>>
        /\ tokenizer.vocab = <<>>
    THEN [outcome |-> "VocabularyNotFound", ret |-> <<>>]
    ELSE [outcome |-> "ok",
          ret |-> << [vocab |->
                        IF tokenizer.getVocab # <<>> THEN tokenizer.getVocab[1]
                        ELSE IF ModelVocab(tokenizer) # <<>>
                        THEN mapToRecord(ModelVocab(tokenizer)[1])
                        ELSE mapToRecord(tokenizer.vocab[1]),
                      merges |-> Nullish(ModelMerges(tokenizer), <<>>),
                      added_tokens |->
                        << MapWithDefaults(Nullish(tokenizer.added_tokens, <<>>)) >>,
                      model_type |-> detectModelType(tokenizer)] >>]

\* parseTokenizerJson(json): the vocabulary, merges and declared type of the
\* document's model, and its added tokens with their defaults. The
\* added_tokens of the result is <<>> when the document has no list
\* (data.added_tokens?.map(...) is undefined).
parseTokenizerJson(json) ==
    IF ModelVocab(json) = <<>>
    THEN [outcome |-> "MalformedDescriptor", ret |-> <<>>]
    ELSE [outcome |-> "ok",
          ret |-> << [vocab |-> json.model[1].vocab[1],
                      merges |-> Nullish(json.model[1].merges, <<>>),
                      added_tokens |->
                        IF json.added_tokens = <<>> THEN <<>>
                        ELSE << MapWithDefaults(json.added_tokens[1]) >>,
                      model_type |-> Nullish(json.model[1].type, "unknown")] >>]

\* loadTokenizerData(modelId, options), given the response of the fetch: an
\* error on a status that is not a success, else the parsed document.
loadTokenizerData(response) ==
    IF ~response.ok THEN [outcome |-> "FetchError", ret |-> <<>>]
    ELSE parseTokenizerJson(response.json)

\* The operations of the bridge touch neither adapter nor controller.
BridgeOnly ==
    /\ NoBuffer
    /\ NoLog
    /\ NoQuery
    /\ UNCHANGED << adapterVars, processorVars, reference >>

ExtractTokenizerData(tokenizer) ==
    /\ LET r == extractTokenizerData(tokenizer)
       IN  Observe("extractTokenizerData", "bridge", << tokenizer >>,
                   r.outcome, r.ret, <<>>, <<>>)
    /\ BridgeOnly

LoadTokenizerData(response) ==
    /\ LET r == loadTokenizerData(response)
       IN  Observe("loadTokenizerData", "bridge", << response >>,
                   r.outcome, r.ret, <<>>, <<>>)
    /\ BridgeOnly

\* The vocabularies of the sources: any of two entries, one of them under
\* the key __proto__; a Map in each iteration order, and the plain object
\* that has the same entries as own properties.
VocabEntries == {<< "a", 0 >>, << ProtoKey, 1 >>}
EntryLists ==
    {<<>>} \cup {<< e >> : e \in VocabEntries}
        \cup {l \in VocabEntries \X VocabEntries : l[1] # l[2]}
\* The mapping that has exactly the entries listed.
EntriesOf(entries) ==
    [k \in {entries[i][1] : i \in 1 .. Len(entries)} |->
        (CHOOSE e \in {entries[i] : i \in 1 .. Len(entries)} : e[1] = k)[2]]
NativeMaps == {[kind |-> "Map", entries |-> l] : l \in EntryLists}
PlainRecords == {EntriesOf(l) : l \in EntryLists}
PlainMappings == {[kind |-> "Object", props |-> r] : r \in PlainRecords}
VocabContainers == NativeMaps \cup PlainMappings

MergesChoices == {<<>>, << "a b" >>, << "a b", "c d" >>}
OptionalFlag == Optional(BOOLEAN)

\* One added token with every combination of flags left out, true and false.
AddedTokenEntries ==
    [id : {50}, content : {"<pad>"}, single_word : OptionalFlag,
     lstrip : OptionalFlag, rstrip : OptionalFlag, normalized : OptionalFlag,
     special : OptionalFlag]

\* Two added tokens to tell order by: one with no flag, one with every flag
\* the other way round from its default.
BareToken ==
    [id |-> 50, content |-> "<pad>", single_word |-> <<>>, lstrip |-> <<>>,
     rstrip |-> <<>>, normalized |-> <<>>, special |-> <<>>]
FlaggedToken ==
    [id |-> 100, content |-> "<|endoftext|>", single_word |-> <<TRUE>>,
     lstrip |-> <<TRUE>>, rstrip |-> <<TRUE>>, normalized |-> <<FALSE>>,
     special |-> <<TRUE>>]
AddedTokenLists ==
    {<< e >> : e \in AddedTokenEntries}
        \cup UNION {[1 .. n -> {BareToken, FlaggedToken}] : n \in 0 .. MaxAddedTokens}

\* In-memory tokenizers: every combination of the three vocabulary sources,
\* every shape of the merges, every list of added tokens.
TokenizersByVocabulary ==
    {[getVocab |-> g, model |-> m, vocab |-> v, added_tokens |-> <<>>] :
        g \in Optional(PlainRecords),
        m \in {<<>>} \cup {<< [vocab |-> mv, merges |-> <<>>] >> :
                              mv \in Optional(VocabContainers)},
        v \in Optional(VocabContainers)}
OneTokenVocab == EntriesOf(<< << "a", 0 >> >>)
TokenizersByMerges ==
    {[getVocab |-> <<>>, model |-> << [vocab |-> <<>>, merges |-> mg] >>,
      vocab |-> << [kind |-> "Object", props |-> OneTokenVocab] >>,
      added_tokens |-> <<>>] : mg \in Optional(MergesChoices)}
TokenizersByAddedTokens ==
    {[getVocab |-> << OneTokenVocab >>, model |-> <<>>, vocab |-> <<>>,
      added_tokens |-> at] : at \in Optional(AddedTokenLists)}
TransformersTokenizers ==
    TokenizersByVocabulary \cup TokenizersByMerges \cup TokenizersByAddedTokens

\* Descriptor documents (tokenizer.json): with and without a model, a
\* vocabulary, merges, a declared type and a list of added tokens.
ModelTypes == {"BPE", "WordPiece"}
DescriptorModels ==
    [vocab : Optional({OneTokenVocab}), merges : Optional(MergesChoices),
     type : Optional(ModelTypes)]
Descriptors ==
    {[model |-> m, added_tokens |-> <<>>] : m \in Optional(DescriptorModels)}
        \cup {[model |-> << [vocab |-> << OneTokenVocab >>, merges |-> <<>>,
                             type |-> <<>>] >>,
               added_tokens |-> at] : at \in Optional(AddedTokenLists)}
Responses == [ok : BOOLEAN, json : Descriptors]

\* The two operations of the bridge, on every tokenizer and every response.
NextTokenizer ==
    \/ \E t \in TransformersTokenizers : ExtractTokenizerData(t)
    \/ \E r \in Responses : LoadTokenizerData(r)

SpecTokenizer == Init /\ [][NextTokenizer]_vars

\* The logits a model emits: one entry for each token of the vocabulary.
VocabularyBuffers == [1 .. VocabSize -> LogitValues]

\* One controller over one adapter, every operation of the controller and
\* the adapter's queries beside it; the host reads the generated tokens at
\* the end of a generation.
NextFrame ==
    \/ OneAdapter
    \/ \E d \in DebugDepthOptions : NewProcessor(d, <<>>)
    \/ (snapshot = NullRef /\ lastOp.name # "process" /\
          \E b \in VocabularyBuffers, a \in AllowedAnswers :
              Process(<<>>, b, a) /\ UNCHANGED reference)
    \/ (snapshot = NullRef /\
          \E t \in SampledTokens : \E a \in AdvanceAnswers(t), th \in BOOLEAN :
              OnToken(t, a, th))
    \/ (snapshot = NullRef /\ \E a \in CompleteAnswers : CanStop(a))
    \/ (snapshot = NullRef /\ Reset)
    \/ GetGeneratedTokens
    \/ (snapshot = NullRef /\
          \E t \in CallerTokenIds, a \in AllowedAnswers :
              ParserIsTokenAllowed(t, a))
    \/ (snapshot = NullRef /\ \E a \in AllowedAnswers : ParserGetTokenMask(a))
    \/ (snapshot = NullRef /\ \E a \in CompleteAnswers : ParserIsComplete(a))

SpecFrame == Init /\ [][NextFrame]_vars

\* The grammars on their way to the oracle: create and the adapter's reset,
\* with every grammar a caller may pass, over sessions with and without
\* committed tokens.
NextGrammar ==
    \/ \E g \in Grammars, t \in Tokenizers : CreateCall(g, t)
    \/ ImportRejected
    \/ InitializeResume
    \/ CreateReturn
    \/ \E t \in SampledTokens : \E a \in AdvanceAnswers(t), th \in BOOLEAN :
          ParserAdvance(t, a, th)
    \/ \E g \in {<<>>} \cup {<<g>> : g \in Grammars} : ParserReset(g)

SpecGrammar == Init /\ [][NextGrammar]_vars

\* ------------------------------------------------------ claims: masking

\* The ranking of section 4.4, step 1: token a comes before token b when its
\* logit is higher, or equal with a the smaller id.
Precedes(buf, a, b) ==
    \/ buf[a + 1] > buf[b + 1]
    \/ (buf[a + 1] = buf[b + 1] /\ a < b)

\* The number of tokens ranked before token t (0 for the top-ranked token).
RankOf(buf, t) ==
    Cardinality({u \in 0 .. (Len(buf) - 1) : Precedes(buf, u, t)})

\* The top-k candidates of the last process call, and those the oracle accepts.
Candidates ==
    {t \in 0 .. (Len(logitsBefore) - 1) : RankOf(logitsBefore, t) < speculationDepth}
AcceptedCandidates == {t \in Candidates : wasm_is_token_allowed(oracle, t)}
FirstAccepted ==
    CHOOSE t \in AcceptedCandidates :
        \A u \in AcceptedCandidates : RankOf(logitsBefore, t) <= RankOf(logitsBefore, u)

\* The last operation was process on a Ready adapter.
Processed == lastOp.name = "process" /\ isInitialized /\ wasmParser # <<>>

\* The token ids of the isTokenAllowed queries of the last operation, in order.
Queries == SelectSeq(parserCalls, LAMBDA c : c.fn = "isTokenAllowed")
MaskCalls == SelectSeq(parserCalls, LAMBDA c : c.fn = "getTokenMask")

\* C1: when some top-k candidate is accepted, process returns a vector of the
\* input's length that holds the first accepted candidate's original logit at
\* its index and -Infinity at every other index.
FastPathResult ==
    (Processed /\ AcceptedCandidates # {}) =>
        /\ lastOp.outcome = "ok"
        /\ Len(ret[1]) = Len(logitsBefore)
        /\ \A i \in 1 .. Len(logitsBefore) :
              ret[1][i] = IF i = FirstAccepted + 1 THEN logitsBefore[i]
                          ELSE NegInfinity

\* A fast path whose winner is not the top-ranked token and keeps a finite
\* logit while another finite logit is masked.
FastPathWitness ==
    /\ Processed
    /\ AcceptedCandidates # {}
    /\ RankOf(logitsBefore, FirstAccepted) >= 1
    /\ ret[1][FirstAccepted + 1] # NegInfinity
    /\ \E i \in 1 .. Len(logitsBefore) :
          i # FirstAccepted + 1 /\ logitsBefore[i] # NegInfinity
                                /\ ret[1][i] = NegInfinity

\* C2: the queries of one process call go down the ranking from the top, at
\* most speculationDepth of them; none follows an accepted one, and a call
\* with an accepted query never asks for the mask.
SpeculationOrderAndEarlyExit ==
    Processed =>
        /\ Len(Queries) <= speculationDepth
        /\ \A i \in 1 .. Len(Queries) :
              /\ RankOf(logitsBefore, Queries[i].arg[1]) = i - 1
              /\ i < Len(Queries) => ~wasm_is_token_allowed(oracle, Queries[i].arg[1])
        /\ (\E i \in 1 .. Len(Queries) :
               wasm_is_token_allowed(oracle, Queries[i].arg[1])) =>
              /\ MaskCalls = <<>>
              /\ \A i \in 1 .. Len(wasmCalls) : wasmCalls[i].fn # "get_token_mask"

\* The top candidate rejected and the second accepted: the call stops with
\* depth and candidates to spare, and without the mask.
EarlyExitWitness ==
    /\ Processed
    /\ Len(Queries) = 2
    /\ Len(Queries) < speculationDepth
    /\ Len(Queries) < Len(logitsBefore)
    /\ wasm_is_token_allowed(oracle, Queries[2].arg[1])
    /\ MaskCalls = <<>>

\* C3: when no top-k candidate is accepted, process asks for the mask exactly
\* once and returns the input with -Infinity wherever the mask is 0 and the
\* original logit wherever the mask is 1.
SlowPathResult ==
    (Processed /\ AcceptedCandidates = {}) =>
        /\ lastOp.outcome = "ok"
        /\ Len(MaskCalls) = 1
        /\ Len(SelectSeq(wasmCalls, LAMBDA c : c.fn = "get_token_mask")) = 1
        /\ Len(ret[1]) = Len(logitsBefore)
        /\ LET mask == wasm_get_token_mask(Session, oracle)
           IN  \A i \in 1 .. Min(Len(mask), Len(logitsBefore)) :
                  /\ mask[i] = 1 => ret[1][i] = logitsBefore[i]
                  /\ mask[i] = 0 => ret[1][i] = NegInfinity

\* A slow path that keeps a finite logit under a 1 and masks one under a 0.
SlowPathWitness ==
    /\ Processed
    /\ AcceptedCandidates = {}
    /\ LET mask == wasm_get_token_mask(Session, oracle)
       IN  /\ \E i \in 1 .. Min(Len(mask), Len(logitsBefore)) :
                 mask[i] = 1 /\ ret[1][i] # NegInfinity
           /\ \E i \in 1 .. Min(Len(mask), Len(logitsBefore)) :
                 mask[i] = 0 /\ logitsBefore[i] # NegInfinity
                             /\ ret[1][i] = NegInfinity

\* What section 4.4 prescribes for the logits, depth and oracle answers of
\* the last process call: the tokens to query, in order.
RECURSIVE PrescribedQueries(_)
PrescribedQueries(n) ==
    IF n >= speculationDepth \/ n >= Len(logitsBefore) THEN <<>>
    ELSE LET t == CHOOSE u \in 0 .. (Len(logitsBefore) - 1) :
                     RankOf(logitsBefore, u) = n
         IN  IF wasm_is_token_allowed(oracle, t) THEN <<t>>
             ELSE <<t>> \o PrescribedQueries(n + 1)

\* ... and the vector to return.
PrescribedResult ==
    LET mask == wasm_get_token_mask(Session, oracle)
    IN  [i \in 1 .. Len(logitsBefore) |->
            IF AcceptedCandidates # {}
            THEN (IF i = FirstAccepted + 1 THEN logitsBefore[i] ELSE NegInfinity)
            ELSE (IF i <= Len(mask) /\ mask[i] = 0 THEN NegInfinity
                  ELSE logitsBefore[i])]

\* C4: the queries of a process call and its result are a function of the
\* logits, the depth and the oracle's answers: the candidates are taken by
\* descending logit and, among equal logits, ascending token id.
TieBreakDeterminism ==
    Processed =>
        /\ [i \in 1 .. Len(Queries) |-> Queries[i].arg[1]] = PrescribedQueries(0)
        /\ \A i, j \in 1 .. Len(Queries) :
              (i < j /\ logitsBefore[Queries[i].arg[1] + 1]
                          = logitsBefore[Queries[j].arg[1] + 1])
                  => Queries[i].arg[1] < Queries[j].arg[1]
        /\ ret = << PrescribedResult >>

\* Three equal logits, the first two candidates rejected: the third query
\* falls on the highest id.
TieBreakWitness ==
    /\ Processed
    /\ Len(Queries) = 3
    /\ \A i \in 1 .. 3 : logitsBefore[i] = logitsBefore[1]
    /\ logitsBefore[1] # NegInfinity
    /\ Queries[3].arg[1] = 2

\* ------------------------------------------- claims: history and lifecycle

\* C5: the history is the ids passed to onToken since the controller was
\* constructed or last reset, in call order, and getGeneratedTokens returns
\* it; onToken calls the adapter's advance once, with its id; reset empties
\* the history and calls the adapter's reset once, with no grammar.
HistoryTracking ==
    hasProcessor =>
        /\ History = passed
        /\ lastOp.name = "getGeneratedTokens" => ret = << passed >>
        /\ lastOp.name = "onToken" =>
              /\ parserCalls = << Call("advance", lastOp.arg) >>
              /\ isInitialized => wasmCalls = << Call("advance", lastOp.arg) >>
        /\ (lastOp.name = "reset" /\ lastOp.layer = "processor") =>
              /\ History = <<>>
              /\ parserCalls = << Call("reset", <<>>) >>
              /\ isInitialized =>
                    wasmCalls = << [fn |-> "reset", json |-> EmptyString] >>

\* getGeneratedTokens returns two different ids in the order they came.
HistoryTrackingWitness ==
    /\ lastOp.name = "getGeneratedTokens"
    /\ Len(ret[1]) = 2
    /\ ret[1][1] > ret[1][2]

\* C6 as it stands: a reset of the adapter, also one the caller makes on the
\* adapter itself, leaves the history empty.
AdapterResetEmptiesHistory ==
    (hasProcessor /\ lastOp.name = "reset" /\ lastOp.outcome = "ok") =>
        History = <<>>

\* C6, amended: only the controller's reset empties a history, together with
\* a reset of the adapter to its original grammar; the caller's own calls on
\* the adapter never change the history.
HistoryEmptiedByControllerResetOnly ==
    [][hasProcessor =>
        /\ (History # <<>> /\ heap'[generatedTokens'] = <<>>) =>
              /\ lastOp'.name = "reset"
              /\ lastOp'.layer = "processor"
              /\ parserCalls' = << Call("reset", <<>>) >>
        /\ (lastOp'.name = "reset" /\ lastOp'.layer = "processor"
              /\ lastOp'.outcome = "ok") =>
              /\ heap'[generatedTokens'] = <<>>
              /\ wasmCalls' = << [fn |-> "reset", json |-> EmptyString] >>
              /\ wasmParser'[1].tokens = <<>>
              /\ wasmParser'[1].grammar = wasmParser'[1].original
        /\ lastOp'.layer = "parser" => heap'[generatedTokens'] = History
      ]_vars

\* The caller has reset the adapter itself under a controller whose history
\* is not empty.
DirectResetWitness ==
    /\ hasProcessor
    /\ lastOp.name = "reset"
    /\ lastOp.layer = "parser"
    /\ lastOp.outcome = "ok"
    /\ Session.tokens = <<>>
    /\ History # <<>>

\* C7: on a Ready adapter canStop returns what the oracle's isComplete
\* answers at the call, whatever the history, and makes no other call on the
\* adapter or the oracle.
CanStopIsOracleCompletion ==
    (lastOp.name = "canStop" /\ isInitialized /\ wasmParser # <<>>) =>
        /\ lastOp.outcome = "ok"
        /\ ret = << oracle.complete >>
        /\ parserCalls = << Call("isComplete", <<>>) >>
        /\ wasmCalls = << Call("is_complete", <<>>) >>

\* canStop answers TRUE on an empty history.
CanStopWitness ==
    /\ lastOp.name = "canStop"
    /\ ret = << TRUE >>
    /\ History = <<>>

\* C8: what the caller does to an array it got from getGeneratedTokens leaves
\* the history as it was, and onToken and reset leave that array as it was.
SnapshotIsACopy ==
    [][(hasProcessor /\ snapshot # NullRef) =>
        /\ lastOp'.layer = "caller" => heap'[generatedTokens'] = History
        /\ (lastOp'.layer = "processor" /\ lastOp'.name \in {"onToken", "reset"}) =>
              /\ snapshot' = snapshot
              /\ heap'[snapshot'] = heap[snapshot]
      ]_vars

\* The caller has pushed onto its array, which now differs from the history.
SnapshotWitness ==
    /\ lastOp.name = "push"
    /\ snapshot # NullRef
    /\ Len(heap[snapshot]) > Len(History)

AdapterOperations ==
    {"isTokenAllowed", "getTokenMask", "advance", "isComplete", "reset", "vocabSize"}

\* C9: an operation on an Uninitialized adapter throws the not-initialized
\* error, reaches no oracle operation and leaves the adapter as it was.
UninitializedOperationsFail ==
    [][(lastOp'.layer = "parser" /\ lastOp'.name \in AdapterOperations
          /\ ~isInitialized) =>
        /\ lastOp'.outcome = "NotInitializedError"
        /\ ret' = <<>>
        /\ wasmCalls' = <<>>
        /\ UNCHANGED << isInitialized, wasmParser >>
      ]_vars

\* advance has been refused on an Uninitialized adapter.
UninitializedWitness ==
    /\ ~isInitialized
    /\ lastOp.layer = "parser"
    /\ lastOp.name = "advance"
    /\ lastOp.outcome = "NotInitializedError"

\* C10: the caller holds an adapter that create made only when it is
\* initialized over the one session constructed for it; a create the oracle
\* rejects fails with the flag unset and the adapter out of the caller's
\* reach, as is the adapter of a create still in flight.
CreateIsAllOrNothing ==
    /\ (createPc = "resolved" /\ callerHasParser) =>
          /\ isInitialized
          /\ wasmParser # <<>>
          /\ sessionsConstructed = 1
    /\ createPc \in {"awaitImport", "awaitInitialize", "rejected"} =>
          ~callerHasParser
    /\ createPc = "rejected" => (~isInitialized /\ wasmParser = <<>>)
    /\ (lastOp.name = "create" /\ wasmCalls # <<>>
          /\ ~wasm_accepts(wasmCalls[1].grammarJson, wasmCalls[1].tokenizerJson)) =>
          /\ createPc = "rejected"
          /\ lastOp.outcome = "OracleInitError"
    /\ createPc = "resolved" => callerHasParser

\* The oracle has rejected the tokenizer of a create.
CreateRejectedWitness ==
    /\ createPc = "rejected"
    /\ lastOp.outcome = "OracleInitError"
    /\ wasmCalls[1].tokenizerJson[1].vocab = <<>>

\* C11: reset(G) on a Ready adapter hands the oracle the translation of G and
\* the session restarts against it; reset() hands it the empty string and the
\* session restarts against the grammar it was constructed with, whatever an
\* earlier reset installed; either way the handle is the session it was, no
\* session is constructed, and the adapter stays initialized (also when the
\* oracle rejects G).
ResetSemantics ==
    [][(lastOp'.layer = "parser" /\ lastOp'.name = "reset"
          /\ isInitialized /\ wasmParser # <<>>) =>
        LET g == lastOp'.arg
            json == IF g = <<>> THEN EmptyString
                    ELSE JSONStringify(convertGrammar(g[1]))
        IN  /\ lastOp'.outcome \in {"ok", "OracleInitError"}
            /\ wasmCalls' = << [fn |-> "reset", json |-> json] >>
            /\ isInitialized'
            /\ wasmParser' # <<>>
            /\ sessionsConstructed' = sessionsConstructed
            /\ wasmParser'[1].original = wasmParser[1].original
            /\ wasmParser'[1].vocab_size = wasmParser[1].vocab_size
            /\ lastOp'.outcome = "ok" =>
                  /\ wasmParser'[1].tokens = <<>>
                  /\ wasmParser'[1].grammar =
                        IF g = <<>> THEN wasmParser[1].original ELSE json
      ]_vars

\* reset(G) has installed a grammar other than the one of construction.
ResetWithGrammarWitness ==
    /\ lastOp.layer = "parser"
    /\ lastOp.name = "reset"
    /\ lastOp.outcome = "ok"
    /\ lastOp.arg # <<>>
    /\ Session.grammar = JSONStringify(convertGrammar(lastOp.arg[1]))
    /\ Session.grammar # Session.original

\* C14: after every process call that returns, the caller's buffer holds the
\* values of the returned vector (the masking is done in place).
ProcessMasksInPlace ==
    (Processed /\ lastOp.outcome = "ok") => logits = ret[1]

\* The wire document doc is the translation of grammar g: one constraint in
\* the list, with the keys and the values of g's tag.
IsWireDocumentOf(doc, g) ==
    /\ DOMAIN doc = {"grammars"}
    /\ Len(doc.grammars) = 1
    /\ LET c == doc.grammars[1]
       IN  /\ g.type = "json_schema" =>
                 (DOMAIN c = {"json_schema"} /\ c.json_schema = g.schema)
           /\ g.type = "regex" =>
                 (DOMAIN c = {"rx"} /\ c.rx = g.pattern)
           /\ g.type = "lark" =>
                 /\ DOMAIN c = {"lark", "start"}
                 /\ c.lark = g.grammar
                 /\ g.startSymbol = Undefined => c.start = "start"
                 /\ g.startSymbol # Undefined => c.start = g.startSymbol

\* C18: the grammar that create and reset(G) hand to the oracle is the
\* serialized translation of their argument, for each of the three tags: a
\* single-element constraint list with the schema under json_schema, the
\* pattern under rx, or the grammar text with its start symbol, "start" when
\* none is given and the given one otherwise.
GrammarTranslation ==
    [][/\ (createPc = "awaitImport" /\ wasmCalls' # <<>>) =>
             /\ Len(wasmCalls') = 1
             /\ Len(wasmCalls'[1].grammarJson) = 1
             /\ IsWireDocumentOf(wasmCalls'[1].grammarJson[1], createArgs[1])
       /\ (lastOp'.name = "reset" /\ lastOp'.arg # <<>> /\ wasmCalls' # <<>>) =>
             /\ Len(wasmCalls') = 1
             /\ Len(wasmCalls'[1].json) = 1
             /\ IsWireDocumentOf(wasmCalls'[1].json[1], lastOp'.arg[1])
      ]_vars

\* A session created from a lark grammar without a start symbol, then reset
\* with one whose start symbol is the empty string.
GrammarTranslationWitness ==
    /\ lastOp.name = "reset"
    /\ lastOp.outcome = "ok"
    /\ lastOp.arg # <<>>
    /\ lastOp.arg[1].type = "lark"
    /\ lastOp.arg[1].startSymbol = ""
    /\ Session.grammar[1].grammars[1].start = ""
    /\ Session.original[1].grammars[1] = [lark |-> "rules", start |-> "start"]

ControllerOperations ==
    {"process", "onToken", "canStop", "reset", "getGeneratedTokens"}

\* C19: the only operation ever suspended is create; while it is suspended
\* the adapter it is building is out of the caller's reach and under no
\* controller, so no operation can start on that adapter's session; every
\* operation of the adapter and of the controller has run to its end, by
\* return or by exception, when the next one starts.
NonReentrancy ==
    /\ lastOp.outcome = "pending" =>
          (lastOp.name = "create" /\ createPc \in {"awaitImport", "awaitInitialize"})
    /\ createPc \in {"awaitImport", "awaitInitialize"} =>
          /\ ~callerHasParser
          /\ ~hasProcessor
          /\ lastOp.name = "create"
          /\ Len(wasmCalls) <= 1
    /\ (lastOp.layer \in {"parser", "processor"}
          /\ lastOp.name \in AdapterOperations \cup ControllerOperations) =>
          /\ lastOp.outcome # "pending"
          /\ createPc \notin {"awaitImport", "awaitInitialize"}

\* create is suspended with the session constructed and the flag set: a Ready
\* adapter that no caller can reach yet.
SuspendedCreateWitness ==
    /\ createPc = "awaitInitialize"
    /\ lastOp.outcome = "pending"
    /\ isInitialized
    /\ wasmParser # <<>>
    /\ ~callerHasParser

\* C20: advance on a Ready adapter, and onToken over one, reach the oracle
\* with the one advance call and no query about the token; this layer raises
\* no error of its own, and unless the oracle itself throws the token is
\* committed to the session, allowed or not; onToken has appended it to the
\* history in every case.
AdvanceDoesNotRevalidate ==
    (lastOp.name \in {"advance", "onToken"} /\ isInitialized /\ wasmParser # <<>>) =>
        /\ wasmCalls = << Call("advance", lastOp.arg) >>
        /\ lastOp.outcome \in {"ok", "OracleError"}
        /\ lastOp.outcome = "ok" =>
              /\ Session.tokens # <<>>
              /\ Session.tokens[Len(Session.tokens)] = lastOp.arg[1]
        /\ lastOp.name = "onToken" =>
              /\ parserCalls = << Call("advance", lastOp.arg) >>
              /\ History # <<>>
              /\ History[Len(History)] = lastOp.arg[1]

\* onToken has committed a token the oracle does not allow, with no error.
InvalidTokenCommittedWitness ==
    /\ lastOp.name = "onToken"
    /\ lastOp.outcome = "ok"
    /\ ~wasm_is_token_allowed(oracle, lastOp.arg[1])
    /\ Session.tokens[Len(Session.tokens)] = lastOp.arg[1]
    /\ History[Len(History)] = lastOp.arg[1]

\* C12: every operation of a controller does to the oracle, to the history
\* and to its caller what the same operation does, from the same state and
\* with the same oracle answers, on a controller whose debug flag is the
\* other way round: same calls, same result or exception, same buffer, same
\* history and session afterwards. The operations without a debug branch
\* return what they return with debug off, and none changes the flag.
DebugNonInterference ==
    [][(hasProcessor /\ lastOp'.layer = "processor"
          /\ lastOp'.name \in ControllerOperations) =>
        /\ debug' = debug
        /\ lastOp'.name = "process" =>
              LET twin == process(logitsBefore', oracle', ~debug)
              IN  /\ twin.outcome = lastOp'.outcome
                  /\ twin.ret = ret'
                  /\ twin.pcalls = parserCalls'
                  /\ twin.wcalls = wasmCalls'
                  /\ twin.logits = logits'
                  /\ UNCHANGED << wasmParser, generatedTokens, heap >>
        /\ lastOp'.name = "onToken" =>
              LET twin == onToken(lastOp'.arg[1], lastOp'.outcome = "OracleError",
                                  ~debug)
              IN  /\ twin.outcome = lastOp'.outcome
                  /\ twin.pcalls = parserCalls'
                  /\ twin.wcalls = wasmCalls'
                  /\ twin.history = heap'[generatedTokens']
                  /\ twin.wasmParser = wasmParser'
        /\ lastOp'.name = "canStop" =>
              /\ ret' = isComplete(oracle').ret
              /\ wasmCalls' = isComplete(oracle').wcalls
              /\ console' = <<>>
        /\ lastOp'.name = "getGeneratedTokens" =>
              /\ ret' = << History >>
              /\ heap'[generatedTokens'] = History
              /\ console' = <<>>
        /\ lastOp'.name = "reset" =>
              /\ heap'[generatedTokens'] = <<>>
              /\ wasmCalls' = reset(<<>>).wcalls
              /\ console' = <<>>
        /\ ~debug => console' = <<>>
      ]_vars

\* A controller with debug on has logged a speculation miss and masked a
\* finite logit on the slow path, after a token was committed.
DebugWitness ==
    /\ debug
    /\ lastOp.name = "process"
    /\ lastOp.outcome = "ok"
    /\ console = << "Top-k tokens", "Speculation miss" >>
    /\ History # <<>>
    /\ \E i \in 1 .. Len(logitsBefore) :
          logitsBefore[i] # NegInfinity /\ ret[1][i] = NegInfinity

\* C13: a process call with the logits, the depth and the oracle answers of
\* an earlier call returns what that call returned (or throws what it threw)
\* and makes the same adapter and oracle calls in the same order, whatever
\* inputIds it is given and whatever the generation history has become since.
MaskingIgnoresHistory ==
    (/\ hasProcessor
     /\ lastOp.name = "process"
     /\ reference # <<>>
     /\ logitsBefore = reference[1].logits
     /\ speculationDepth = reference[1].k) =>
        /\ lastOp.outcome = reference[1].outcome
        /\ ret = reference[1].ret
        /\ parserCalls = reference[1].parserCalls
        /\ wasmCalls = reference[1].wasmCalls

\* The call repeated with inputIds, after two tokens were committed, on a
\* session whose oracle allows a token that inputIds names: the mask keeps
\* that token and removes another.
MaskingIgnoresHistoryWitness ==
    /\ lastOp.name = "process"
    /\ lastOp.outcome = "ok"
    /\ reference # <<>>
    /\ speculationDepth = reference[1].k
    /\ lastOp.arg[1] # <<>>
    /\ Len(History) = 2
    /\ \E i \in 1 .. Len(lastOp.arg[1]) :
          /\ lastOp.arg[1][i] \in reference[1].answer.allowed
          /\ lastOp.arg[1][i] + 1 \in 1 .. Len(ret[1])
          /\ ret[1][lastOp.arg[1][i] + 1] # NegInfinity
    /\ \E i \in 1 .. Len(logitsBefore) :
          logitsBefore[i] # NegInfinity /\ ret[1][i] = NegInfinity

\* The token-to-id record with the entries of a vocabulary source, Map or
\* plain mapping.
RecordOfSource(container) ==
    IF container.kind = "Map" THEN EntriesOf(container.entries)
    ELSE container.props

Extracted == lastOp.name = "extractTokenizerData"

\* C15: extractTokenizerData takes the vocabulary from the accessor when there
\* is one, else from the nested field of the model, else from the top-level
\* field, and throws the vocabulary-not-found error when there is none; from
\* a Map or a plain mapping it returns the record with the same entries, the
\* one an accessor returning those entries would give.
VocabularyResolution ==
    Extracted =>
        LET tokenizer == lastOp.arg[1]
        IN  /\ tokenizer.getVocab # <<>> =>
                  /\ lastOp.outcome = "ok"
                  /\ ret[1].vocab = tokenizer.getVocab[1]
            /\ (tokenizer.getVocab = <<>> /\ ModelVocab(tokenizer) # <<>>) =>
                  /\ lastOp.outcome = "ok"
                  /\ ret[1].vocab = RecordOfSource(ModelVocab(tokenizer)[1])
            /\ (/\ tokenizer.getVocab = <<>>
                /\ ModelVocab(tokenizer) = <<>>
                /\ tokenizer.vocab # <<>>) =>
                  /\ lastOp.outcome = "ok"
                  /\ ret[1].vocab = RecordOfSource(tokenizer.vocab[1])
            /\ (/\ tokenizer.getVocab = <<>>
                /\ ModelVocab(tokenizer) = <<>>
                /\ tokenizer.vocab = <<>>) =>
                  /\ lastOp.outcome = "VocabularyNotFound"
                  /\ ret = <<>>

Loaded == lastOp.name = "loadTokenizerData"
\* The bridge returned a TokenizerData.
Normalized == (Extracted \/ Loaded) /\ lastOp.outcome = "ok"
\* What the bridge was given: the tokenizer, or the fetched document.
Source == IF Loaded THEN lastOp.arg[1].json ELSE lastOp.arg[1]

\* The merges of the result are those of the source, or empty when the
\* source has none.
MergesDefaulted ==
    /\ ModelMerges(Source) = <<>> => ret[1].merges = <<>>
    /\ ModelMerges(Source) # <<>> => ret[1].merges = ModelMerges(Source)[1]

\* C16 as claimed: every TokenizerData, from a tokenizer or from a fetched
\* document, has model_type "bpe" exactly when its merges are non-empty and
\* "unknown" otherwise, and empty merges when the source has none.
ModelFamilyFromMerges ==
    Normalized =>
        /\ MergesDefaulted
        /\ ret[1].model_type = IF ret[1].merges # <<>> THEN "bpe" ELSE "unknown"

\* C16: a TokenizerData from an in-memory tokenizer has model_type "bpe"
\* exactly when its merges are non-empty and "unknown" otherwise; one from a
\* fetched document has the type the document declares, whatever its merges,
\* and "unknown" only when it declares none; on both paths the merges are
\* empty when the source has none.
ModelFamilyByPath ==
    Normalized =>
        /\ MergesDefaulted
        /\ Extracted =>
              ret[1].model_type =
                  IF ret[1].merges # <<>> THEN "bpe" ELSE "unknown"
        /\ Loaded =>
              /\ Source.model[1].type = <<>> => ret[1].model_type = "unknown"
              /\ Source.model[1].type # <<>> =>
                    ret[1].model_type = Source.model[1].type[1]

\* A fetched document with merges and no declared type came out "unknown".
ModelFamilyWitness ==
    /\ Loaded
    /\ lastOp.outcome = "ok"
    /\ Len(ret[1].merges) = 2
    /\ Source.model[1].type = <<>>
    /\ ret[1].model_type = "unknown"

\* An added token of the result against the one of the source: id and
\* content copied, each flag as given or, when left out, its default.
DefaultedFrom(out, token) ==
    /\ out.id = token.id
    /\ out.content = token.content
    /\ out.single_word = IF token.single_word = <<>> THEN FALSE
                         ELSE token.single_word[1]
    /\ out.lstrip = IF token.lstrip = <<>> THEN FALSE ELSE token.lstrip[1]
    /\ out.rstrip = IF token.rstrip = <<>> THEN FALSE ELSE token.rstrip[1]
    /\ out.normalized = IF token.normalized = <<>> THEN TRUE
                        ELSE token.normalized[1]
    /\ out.special = IF token.special = <<>> THEN FALSE ELSE token.special[1]

\* The added tokens of the result are those of the given list, defaulted,
\* one for one and in its order.
AddedTokensDefaultedFrom(tokens) ==
    /\ ret[1].added_tokens # <<>>
    /\ Len(ret[1].added_tokens[1]) = Len(tokens)
    /\ \A i \in 1 .. Len(tokens) :
          DefaultedFrom(ret[1].added_tokens[1][i], tokens[i])

\* C17 as claimed: on both paths the added tokens are the source's, defaulted
\* and in order, and a source without a list yields an empty sequence, never
\* a missing one.
AddedTokenDefaulting ==
    Normalized =>
        AddedTokensDefaultedFrom(Nullish(Source.added_tokens, <<>>))

\* C17: on both paths the added tokens of a source that has a list are the
\* source's, in order, with id and content copied, each flag kept when given
\* (true or false) and set to its default when left out; a tokenizer without
\* a list yields an empty sequence, and a fetched document without a list
\* yields a TokenizerData with no added_tokens at all.
AddedTokenDefaultingByPath ==
    Normalized =>
        /\ Source.added_tokens # <<>> =>
              AddedTokensDefaultedFrom(Source.added_tokens[1])
        /\ (Source.added_tokens = <<>> /\ Extracted) =>
              ret[1].added_tokens = << <<>> >>
        /\ (Source.added_tokens = <<>> /\ Loaded) =>
              ret[1].added_tokens = <<>>

\* Two added tokens came out in their order, the second one with
\* normalized: false kept and the first one with every default filled in.
AddedTokenWitness ==
    /\ Normalized
    /\ Source.added_tokens = << << BareToken, FlaggedToken >> >>
    /\ ret[1].added_tokens[1][1].normalized
    /\ ~ret[1].added_tokens[1][2].normalized
    /\ ret[1].added_tokens[1][2].id = FlaggedToken.id

\* The calls of the last operation that change the session: advance, reset.
MutatingCalls(calls) ==
    {i \in 1 .. Len(calls) : calls[i].fn \in {"advance", "reset"}}

ReadOnlyOperations == {"process", "canStop", "getGeneratedTokens"}

\* C21: process, canStop and getGeneratedTokens make no advance and no reset
\* call, on the adapter or on the session, and leave the generation history
\* and the session as they were; a step that changes a live session is an
\* onToken, with its advance call, or a reset, with its reset call.
ReadOnlyOperationsFrame ==
    [][/\ (/\ hasProcessor
           /\ lastOp'.layer = "processor"
           /\ lastOp'.name \in ReadOnlyOperations) =>
              /\ MutatingCalls(parserCalls') = {}
              /\ MutatingCalls(wasmCalls') = {}
              /\ generatedTokens' = generatedTokens
              /\ heap'[generatedTokens'] = History
              /\ wasmParser' = wasmParser
       /\ (wasmParser # <<>> /\ wasmParser' # wasmParser) =>
              /\ lastOp'.layer = "processor"
              /\ \/ lastOp'.name = "onToken"
                      /\ wasmCalls' = << Call("advance", lastOp'.arg) >>
                 \/ lastOp'.name = "reset"
                      /\ wasmCalls' = << [fn |-> "reset", json |-> EmptyString] >>
      ]_vars

\* A process on the slow path that masked a token, over a session with two
\* committed tokens and a history of two: both are still there.
ReadOnlyWitness ==
    /\ lastOp.name = "process"
    /\ lastOp.outcome = "ok"
    /\ MaskCalls # <<>>
    /\ Len(History) = 2
    /\ wasmParser # <<>>
    /\ Session.tokens = History
    /\ \E i \in 1 .. Len(logitsBefore) :
          logitsBefore[i] # NegInfinity /\ ret[1][i] = NegInfinity

\* C22: after a process that returned, every index of the result that holds
\* a value other than -Infinity is a token the oracle allows in its current
\* state, whatever the length of the logits against the mask's: none outside
\* the mask is left unmasked.
MaskingSoundness ==
    (Processed /\ lastOp.outcome = "ok") =>
        \A i \in 1 .. Len(ret[1]) :
            ret[1][i] # NegInfinity => (i - 1) \in oracle.allowed

\* C23: an onToken whose advance failed and a reset of the controller whose
\* adapter reset failed leave the generation history as it was before the
\* call.
FailureAtomicity ==
    [][(/\ hasProcessor
        /\ lastOp'.layer = "processor"
        /\ lastOp'.name \in {"onToken", "reset"}
        /\ lastOp'.outcome # "ok") =>
            heap'[generatedTokens'] = History
      ]_vars

====
